---- MODULE Spec2Model ----
(***************************************************************************)
(* Product discovery pipeline of the AP2 sample: the merchant's catalog    *)
(* agent (find_items_workflow and its helpers), the Best Buy catalog       *)
(* client (search_products, _detect_category, _get_demo_products) and the  *)
(* shopper tool find_products that sends the discovery request.            *)
(***************************************************************************)
EXTENDS Integers, Sequences, FiniteSets, TLC

(***************************************************************************)
(* Bounds of the model.                                                    *)
(***************************************************************************)
\* longest product list a catalog response carries
MaxFetch == 4
\* longest index list a ranking response carries
MaxRankLen == 4
\* longest item list a placeholder-generation response carries
MaxGen == 2

(***************************************************************************)
(* Python helpers.                                                         *)
(***************************************************************************)
\* None; optional texts are one-element tuples, and None is its own tuple
None == <<"None">>

Min(a, b) == IF a <= b THEN a ELSE b

\* a variant that takes the smaller of the two
MinInsteadOfMax(a, b) == IF a <= b THEN a ELSE b

Max(a, b) == IF a >= b THEN a ELSE b

\* seq[:n]
SliceTo(seq, n) ==
  IF n >= 0 THEN SubSeq(seq, 1, Min(n, Len(seq)))
            ELSE SubSeq(seq, 1, Max(Len(seq) + n, 0))

\* str.lower(), on the characters the terms use
LowerChar(ch) ==
  CASE ch = "T" -> "t"
    [] ch = "V" -> "v"
    [] ch = "C" -> "c"
    [] OTHER -> ch

Lower(s) == [i \in 1..Len(s) |-> LowerChar(s[i])]

\* pat in s
IsSubstring(pat, s) ==
  \E i \in 0..(Len(s) - Len(pat)) : SubSeq(s, i + 1, i + Len(pat)) = pat

(***************************************************************************)
(* Search terms (natural_language_description), as character sequences.    *)
(***************************************************************************)
TermCoffeeMaker == <<"C", "o", "f", "f", "e", "e", " ", "m", "a", "k", "e", "r">>

TermTvLaptop == <<"T", "V", " ", "l", "a", "p", "t", "o", "p">>

TermUsb == <<"u", "s", "b">>

Terms == {TermCoffeeMaker, TermTvLaptop, TermUsb}

(***************************************************************************)
(* BestBuyProduct and the built-in demo catalog.  Prices are in cents.     *)
(***************************************************************************)
Product(sku, salePrice, shortDescription) ==
  [sku |-> sku, name |-> <<"name", sku>>, salePrice |-> salePrice,
   shortDescription |-> shortDescription,
   image |-> <<"image", sku>>, url |-> <<"url", sku>>]

\* one record of the catalog response's "products" list: the i-th record
\* carries sku i; a malformed record lacks the required salePrice
RawProduct(i, wellFormed) ==
  [keys |-> IF wellFormed THEN {"sku", "name", "salePrice", "image", "url"}
                          ELSE {"sku", "name", "image", "url"},
   sku |-> i, salePrice |-> 5000 + 1000 * i]

RequiredFields == {"sku", "name", "salePrice"}

\* BestBuyProduct(**product_data): raises unless the required fields are there
ParseRaises(product_data) == ~(RequiredFields \subseteq product_data.keys)

ParseProduct(product_data) ==
  Product(product_data.sku, product_data.salePrice, None)

DemoCategories == <<"coffee", "laptop", "headphones", "tv">>

CategoryChars(category) ==
  CASE category = "coffee" -> <<"c", "o", "f", "f", "e", "e">>
    [] category = "laptop" -> <<"l", "a", "p", "t", "o", "p">>
    [] category = "headphones" -> <<"h", "e", "a", "d", "p", "h", "o", "n", "e", "s">>
    [] category = "tv" -> <<"t", "v">>

demo_catalog(category) ==
  CASE category = "coffee" ->
         << Product(6446101, 16999, <<"desc", 6446101>>),
            Product(6120833, 8999, <<"desc", 6120833>>),
            Product(6372886, 2499, <<"desc", 6372886>>) >>
    [] category = "laptop" ->
         << Product(6534616, 99999, <<"desc", 6534616>>),
            Product(6515649, 49999, <<"desc", 6515649>>),
            Product(6542175, 79999, <<"desc", 6542175>>) >>
    [] category = "headphones" ->
         << Product(6505727, 34999, <<"desc", 6505727>>),
            Product(6447909, 19999, <<"desc", 6447909>>),
            Product(6428457, 19999, <<"desc", 6428457>>) >>
    [] category = "tv" ->
         << Product(6536735, 89799, <<"desc", 6536735>>),
            Product(6522019, 129999, <<"desc", 6522019>>),
            Product(6501901, 24999, <<"desc", 6501901>>) >>

\* all_products: the categories' lists concatenated in catalog order
AllDemoProducts ==
  demo_catalog("coffee") \o demo_catalog("laptop")
    \o demo_catalog("headphones") \o demo_catalog("tv")

DemoSkus == {AllDemoProducts[i].sku : i \in 1..Len(AllDemoProducts)}

\* a variant that returns nothing when no category matches the term
DemoProductsNoDefault(query, count) ==
  LET query_lower == Lower(query)
      matching == {i \in 1..Len(DemoCategories) :
                     IsSubstring(CategoryChars(DemoCategories[i]), query_lower)}
  IN  IF matching # {}
        THEN LET first == CHOOSE i \in matching : \A j \in matching : i <= j
             IN  SliceTo(demo_catalog(DemoCategories[first]), count)
        ELSE <<>>

\* a variant that keeps the last matching category instead of the first
DemoProductsLastMatch(query, count) ==
  LET query_lower == Lower(query)
      matching == {i \in 1..Len(DemoCategories) :
                     IsSubstring(CategoryChars(DemoCategories[i]), query_lower)}
  IN  IF matching # {}
        THEN LET last == CHOOSE i \in matching : \A j \in matching : i >= j
             IN  SliceTo(demo_catalog(DemoCategories[last]), count)
        ELSE SliceTo(AllDemoProducts, count)

\* BestBuyClient._get_demo_products
_get_demo_products(query, count) ==
  LET query_lower == Lower(query)
      matching == {i \in 1..Len(DemoCategories) :
                     IsSubstring(CategoryChars(DemoCategories[i]), query_lower)}
  IN  IF matching # {}
        THEN LET first == CHOOSE i \in matching : \A j \in matching : i <= j
             IN  SliceTo(demo_catalog(DemoCategories[first]), count)
        ELSE SliceTo(AllDemoProducts, count)

(***************************************************************************)
(* BestBuyClient._detect_category.                                         *)
(***************************************************************************)
CATEGORY_MAP ==
  [key \in {"computers", "laptops", "desktops", "tablets", "tvs", "appliances",
            "refrigerators", "headphones", "cameras", "phones", "gaming",
            "audio", "smart_home", "wearables", "coffee_makers"} |->
     CASE key = "computers" -> <<"abcat0500000">>
       [] key = "laptops" -> <<"abcat0502000">>
       [] key = "desktops" -> <<"abcat0501000">>
       [] key = "tablets" -> <<"pcmcat209000050006">>
       [] key = "tvs" -> <<"abcat0101000">>
       [] key = "appliances" -> <<"abcat0900000">>
       [] key = "refrigerators" -> <<"abcat0901000">>
       [] key = "headphones" -> <<"abcat0204000">>
       [] key = "cameras" -> <<"abcat0401000">>
       [] key = "phones" -> <<"abcat0800000">>
       [] key = "gaming" -> <<"abcat0700000">>
       [] key = "audio" -> <<"abcat0200000">>
       [] key = "smart_home" -> <<"pcmcat1496256099917">>
       [] key = "wearables" -> <<"pcmcat332000050000">>
       [] key = "coffee_makers" -> <<"pcmcat367400050001">>]

\* texts the classification call may answer with
ResponseTexts == {"laptops", " Laptops ", "none", "furniture"}

\* response.text.strip().lower()
StripLower(text) == IF text = " Laptops " THEN "laptops" ELSE text

\* what the classification service does when _detect_category runs:
\*   client_error  genai.Client() raises
\*   call_error    generate_content raises or times out
\*   no_text       the response carries no text (response.text is None)
\*   text          the response carries a text
ClassifyOutcomes ==
  {[kind |-> "client_error", text |-> ""], [kind |-> "call_error", text |-> ""],
   [kind |-> "no_text", text |-> ""]}
    \cup {[kind |-> "text", text |-> t] : t \in ResponseTexts}

\* the client is created before the try block; the call and the lookup are
\* inside it
_detect_category(cls) ==
  IF cls.kind = "client_error"
    THEN [raised |-> TRUE, value |-> None]
    ELSE IF cls.kind \in {"call_error", "no_text"}
      THEN [raised |-> FALSE, value |-> None]
      ELSE LET category_key == StripLower(cls.text)
           IN  IF category_key \in DOMAIN CATEGORY_MAP
                 THEN [raised |-> FALSE, value |-> CATEGORY_MAP[category_key]]
                 ELSE [raised |-> FALSE, value |-> None]

(***************************************************************************)
(* BestBuyClient.search_products.                                          *)
(***************************************************************************)
DefaultMinPrice == 50

NoRequest == [sent |-> FALSE]

\* the lists of well-formedness flags a catalog response may carry: the
\* i-th record of the response is RawProduct(i, flags[i])
RawFlagLists == UNION {[1..n -> BOOLEAN] : n \in 0..MaxFetch}

\* what the catalog service does when the request is sent:
\*   transport_error  client.get raises (connection failure, timeout)
\*   status_error     a non-2xx status: raise_for_status raises
\*   bad_json         response.json() raises
\*   no_products      a JSON body without a "products" key
\*   ok               a JSON body whose "products" list is given by flags
HttpOutcomes ==
  {[kind |-> k, flags |-> <<>>] :
     k \in {"transport_error", "status_error", "bad_json", "no_products"}}
    \cup {[kind |-> "ok", flags |-> f] : f \in RawFlagLists}

\* a variant without the try/except around the parse of one record: the
\* first record that fails to parse discards the whole response
ParsedProductsAllOrNothing(flags) ==
  LET raw == [i \in 1..Len(flags) |-> RawProduct(i, flags[i])]
  IN  IF \E i \in 1..Len(raw) : ParseRaises(raw[i])
        THEN <<>>
        ELSE [i \in 1..Len(raw) |-> ParseProduct(raw[i])]

\* lines 221-229: the records that parse, in the order of the response
ParsedProducts(flags) ==
  LET raw == [i \in 1..Len(flags) |-> RawProduct(i, flags[i])]
      good == SelectSeq(raw, LAMBDA product_data : ~ParseRaises(product_data))
  IN  [i \in 1..Len(good) |-> ParseProduct(good[i])]

\* a variant that tests the truth value of min_price: 0 counts as absent
MinPriceByTruthValue(min_price) ==
  IF min_price # <<>> /\ min_price[1] # 0 THEN min_price[1]
                                           ELSE DefaultMinPrice

\* line 181: min_price if min_price is not None else 50
\* optional numbers: <<>> is None, <<n>> is n
EffectiveMinPrice(min_price) ==
  IF min_price # <<>> THEN min_price[1] ELSE DefaultMinPrice

search_products(query, max_results, min_price, max_price, fetch_extra, demo_mode, cls, http) ==
  IF demo_mode
    THEN [raised |-> FALSE, products |-> _get_demo_products(query, max_results),
          calls |-> <<>>, request |-> NoRequest]
    ELSE
      LET category_id == _detect_category(cls)
          classify_calls == IF cls.kind = "client_error" THEN <<>>
                                                          ELSE <<"classify">>
          effective_min_price == EffectiveMinPrice(min_price)
          fetch_count == Max(fetch_extra, max_results * 3)
          request == [sent |-> TRUE,
                      search |-> query,
                      category |-> IF category_id.raised THEN None
                                                         ELSE category_id.value,
                      type |-> "hardgood",
                      min_price |-> effective_min_price,
                      max_price |-> max_price,
                      pageSize |-> fetch_count]
          products == IF http.kind = "ok" THEN ParsedProducts(http.flags)
                                          ELSE <<>>
      IN  IF category_id.raised
            THEN [raised |-> TRUE, products |-> <<>>,
                  calls |-> classify_calls, request |-> NoRequest]
            ELSE [raised |-> FALSE,
                  products |-> IF products = <<>>
                                 THEN _get_demo_products(query, max_results)
                                 ELSE products,
                  calls |-> classify_calls \o <<"catalog">>,
                  request |-> request]

(***************************************************************************)
(* _filter_relevant_products.                                              *)
(***************************************************************************)
\* indices a ranking response may name: a negative one, the first two, the
\* last of the longest candidate list, and one past its end
IndexValues == {0 - 1, 0, 1, MaxFetch - 1, MaxFetch}

IndexLists == UNION {[1..n -> IndexValues] : n \in 0..MaxRankLen}

\* what the ranking service does when the filter runs:
\*   client_error  genai.Client() raises
\*   call_error    generate_content raises or times out
\*   unparsable    the response has no parsed list (parsed is None)
\*   indices       the response parses to a list of integers
RankOutcomes ==
  {[kind |-> k, indices |-> <<>>] :
     k \in {"client_error", "call_error", "unparsable"}}
    \cup {[kind |-> "indices", indices |-> l] : l \in IndexLists}

\* a variant without the lower bound of the range check: a negative index
\* counts from the end of the list, as products[idx] does
SelectedAllowingNegative(products, selected_indices) ==
  LET in_range == SelectSeq(selected_indices,
                            LAMBDA idx : 0 - Len(products) <= idx
                                           /\ idx < Len(products))
  IN  [i \in 1..Len(in_range) |->
         IF in_range[i] >= 0 THEN products[in_range[i] + 1]
                             ELSE products[Len(products) + in_range[i] + 1]]

\* lines 234-237: the candidates at the in-range indices, in response order
SelectedByIndices(products, selected_indices) ==
  LET in_range == SelectSeq(selected_indices,
                            LAMBDA idx : 0 <= idx /\ idx < Len(products))
  IN  [i \in 1..Len(in_range) |-> products[in_range[i] + 1]]

\* a variant that skips the ranking only below max_results candidates
FilterStrictNoOp(products, max_results, rank) ==
  IF Len(products) < max_results
    THEN [raised |-> FALSE, value |-> products, called |-> FALSE]
    ELSE IF rank.kind = "client_error"
      THEN [raised |-> TRUE, value |-> <<>>, called |-> FALSE]
      ELSE IF rank.kind \in {"call_error", "unparsable"}
        THEN [raised |-> FALSE, value |-> SliceTo(products, max_results),
              called |-> TRUE]
        ELSE LET relevant_products ==
                   SelectedByIndices(products, rank.indices)
             IN  [raised |-> FALSE,
                  value |-> IF Len(relevant_products) > 0
                              THEN relevant_products
                              ELSE SliceTo(products, max_results),
                  called |-> TRUE]

\* a variant that reads the response outside the try block: a response
\* without a parsed list raises out of the filter
FilterUnparsableRaises(products, max_results, rank) ==
  IF Len(products) <= max_results
    THEN [raised |-> FALSE, value |-> products, called |-> FALSE]
    ELSE IF rank.kind = "client_error"
      THEN [raised |-> TRUE, value |-> <<>>, called |-> FALSE]
      ELSE IF rank.kind = "unparsable"
        THEN [raised |-> TRUE, value |-> <<>>, called |-> TRUE]
        ELSE IF rank.kind = "call_error"
          THEN [raised |-> FALSE, value |-> SliceTo(products, max_results),
                called |-> TRUE]
          ELSE LET relevant_products ==
                     SelectedByIndices(products, rank.indices)
               IN  [raised |-> FALSE,
                    value |-> IF Len(relevant_products) > 0
                                THEN relevant_products
                                ELSE SliceTo(products, max_results),
                    called |-> TRUE]

\* lines 162-244: the client is created before the try block; the call and
\* the reading of the response are inside it
_filter_relevant_products(products, max_results, rank) ==
  IF Len(products) <= max_results
    THEN [raised |-> FALSE, value |-> products, called |-> FALSE]
    ELSE IF rank.kind = "client_error"
      THEN [raised |-> TRUE, value |-> <<>>, called |-> FALSE]
      ELSE IF rank.kind \in {"call_error", "unparsable"}
        THEN [raised |-> FALSE, value |-> SliceTo(products, max_results),
              called |-> TRUE]
        ELSE LET relevant_products ==
                   SelectedByIndices(products, rank.indices)
             IN  [raised |-> FALSE,
                  value |-> IF Len(relevant_products) > 0
                              THEN relevant_products
                              ELSE SliceTo(products, max_results),
                  called |-> TRUE]

(***************************************************************************)
(* find_items_workflow: constants of the call sites and the selection.     *)
(***************************************************************************)
\* max_results=3 of the search and filter calls
WorkflowMaxResults == 3

\* fetch_extra=15 of the search call
WorkflowFetchExtra == 15

\* lines 76-87: the filter's result, or the first 3 products when the filter
\* raised or returned nothing
\* a variant without the try/except of lines 76-82
FinalSelectionUncaught(products, filtered) ==
  IF filtered.raised
    THEN [raised |-> TRUE, value |-> <<>>]
    ELSE IF Len(filtered.value) = 0
      THEN [raised |-> FALSE, value |-> SliceTo(products, 3)]
      ELSE [raised |-> FALSE, value |-> filtered.value]

FinalSelection(products, filtered) ==
  IF filtered.raised
    THEN [raised |-> FALSE, value |-> SliceTo(products, 3)]
    ELSE IF Len(filtered.value) = 0
      THEN [raised |-> FALSE, value |-> SliceTo(products, 3)]
      ELSE [raised |-> FALSE, value |-> filtered.value]

(***************************************************************************)
(* _generate_fallback_products: the placeholder-generation call.           *)
(***************************************************************************)
GeneratedItem(i) ==
  [label |-> <<"generated", i>>,
   amount |-> [currency |-> "USD", value |-> 1000 * i]]

\* what the generation service does:
\*   client_error  genai.Client() raises
\*   call_error    generate_content raises or times out
\*   unparsable    the response has no parsed list (parsed is None)
\*   items         the response parses to a list of n PaymentItems
GenOutcomes ==
  {[kind |-> k, n |-> 0] : k \in {"client_error", "call_error", "unparsable"}}
    \cup {[kind |-> "items", n |-> n] : n \in 0..MaxGen}

(***************************************************************************)
(* _create_and_add_cart_mandate_artifact.                                  *)
(***************************************************************************)
ExpiryMinutes == 30

\* lines 94-100: the PaymentItem of a catalog product
PaymentItemOf(product) ==
  [label |-> product.name,
   amount |-> [currency |-> "USD", value |-> product.salePrice]]

\* a variant that gives every order the id of the first one
CartMandateSameOrderId(item, item_count, current_time, merchant_name) ==
  [contents |->
     [id |-> <<"cart", item_count>>,
      user_cart_confirmation_required |-> TRUE,
      payment_request |->
        [method_data |-> <<[supported_methods |-> "CARD"]>>,
         details |-> [id |-> <<"order", 1>>,
                      display_items |-> <<item>>,
                      total |-> [label |-> <<"Total">>, amount |-> item.amount]],
         options |-> [request_shipping |-> TRUE]],
      cart_expiry |-> current_time + ExpiryMinutes,
      merchant_name |-> merchant_name]]

\* a variant that asks for no confirmation of the cart
CartMandateNoConfirmation(item, item_count, current_time, merchant_name) ==
  [contents |->
     [id |-> <<"cart", item_count>>,
      user_cart_confirmation_required |-> FALSE,
      payment_request |->
        [method_data |-> <<[supported_methods |-> "CARD"]>>,
         details |-> [id |-> <<"order", item_count>>,
                      display_items |-> <<item>>,
                      total |-> [label |-> <<"Total">>, amount |-> item.amount]],
         options |-> [request_shipping |-> TRUE]],
      cart_expiry |-> current_time + ExpiryMinutes,
      merchant_name |-> merchant_name]]

\* a variant that takes the creation time for the expiry
CartMandateExpiresAtCreation(item, item_count, current_time, merchant_name) ==
  [contents |->
     [id |-> <<"cart", item_count>>,
      user_cart_confirmation_required |-> TRUE,
      payment_request |->
        [method_data |-> <<[supported_methods |-> "CARD"]>>,
         details |-> [id |-> <<"order", item_count>>,
                      display_items |-> <<item>>,
                      total |-> [label |-> <<"Total">>, amount |-> item.amount]],
         options |-> [request_shipping |-> TRUE]],
      cart_expiry |-> current_time,
      merchant_name |-> merchant_name]]

\* lines 293-321
CartMandate(item, item_count, current_time, merchant_name) ==
  [contents |->
     [id |-> <<"cart", item_count>>,
      user_cart_confirmation_required |-> TRUE,
      payment_request |->
        [method_data |-> <<[supported_methods |-> "CARD"]>>,
         details |-> [id |-> <<"order", item_count>>,
                      display_items |-> <<item>>,
                      total |-> [label |-> <<"Total">>, amount |-> item.amount]],
         options |-> [request_shipping |-> TRUE]],
      cart_expiry |-> current_time + ExpiryMinutes,
      merchant_name |-> merchant_name]]

\* lines 324-328
Metadata(product_description, product_image, product_url) ==
  [description |-> product_description, image |-> product_image,
   url |-> product_url]

\* dict[key] = value
Put(dict, key, value) ==
  [k \in DOMAIN dict \cup {key} |-> IF k = key THEN value ELSE dict[k]]

EmptyDict == [k \in {} |-> None]

\* the fake risk data of _collect_risk_data
RiskData == <<"fake_risk_data">>

(***************************************************************************)
(* State.                                                                  *)
(***************************************************************************)
\* discovery requests (tasks) the merchant may handle; the requests that
\* are sent are those of the variable tasks
Reqs == {1, 2}

\* creation times (minutes since the epoch) a request may observe
Times == {1440}

Missing == <<"missing">>

Malformed == <<"malformed">>

Unset == <<"unset">>

\* the data parts a caller may send: an Intent that is well-formed, missing
\* or malformed, and the risk data or none
\* intent_mandate is the Intent's natural_language_description (or Missing,
\* Malformed) and user_cart_confirmation_required the Intent's flag
DataParts ==
  [intent_mandate : Terms \cup {Missing, Malformed}, risk_data : {RiskData},
   user_cart_confirmation_required : {TRUE}]
    \cup [intent_mandate : {TermCoffeeMaker, Missing}, risk_data : {None},
          user_cart_confirmation_required : {TRUE}]
    \cup [intent_mandate : {TermCoffeeMaker}, risk_data : {RiskData},
          user_cart_confirmation_required : {FALSE}]

VARIABLES
  tasks,                \* the requests the callers send
  api_key,              \* BESTBUY_API_KEY is configured
  search_stubbed,       \* search_products is replaced by a test double
  tool_context,         \* the shopper's tool_context.state
  fp_pc,                \* find_products: idle, waiting, returned, raised
                        \* (before sending), raised_task (task not completed)
  fp_task,              \* the request find_products sent last, or 0
  uc,                   \* the last call of update_chosen_cart_mandate: its
                        \* argument, its answer, the session state it was
                        \* called in (seen) and the one it returned in (left)
  pc,                   \* find_items_workflow: position of each request;
                        \* blocked_*: waiting for an answer that never comes
  data_parts,           \* the data parts of each request
  bestbuy_client,       \* none, open, closed
  closes,               \* number of close() calls on the request's client
  calls,                \* external calls made for the request, in order
  request,              \* the catalog request sent, or NoRequest
  products,             \* result of search_products
  current_time,         \* current_time of line 72
  filtered,             \* outcome of _filter_relevant_products
  relevant_products,    \* the final selection
  items,                \* the generated placeholder items
  item_count,           \* item_count of the assembly loops
  events,               \* what the TaskUpdater (the sink) received, in order
  error,                \* the exception the workflow's except clause caught
  failed_raised,        \* updater.failed itself raised
  cart_mandate_store,   \* storage.set_cart_mandate
  cart_metadata_store,  \* storage.set_cart_metadata
  risk_data_store,      \* storage.set_risk_data
  sp,                   \* one direct call of search_products: arguments,
                        \* what the services did, and the result
  fl                    \* one direct call of _filter_relevant_products

vars ==
  <<tasks, api_key, search_stubbed, tool_context, fp_pc, fp_task, uc, pc,
    data_parts,
    bestbuy_client, closes, calls, request, products, current_time, filtered,
    relevant_products, items, item_count, events, error, failed_raised,
    cart_mandate_store, cart_metadata_store, risk_data_store, sp, fl>>

shopperVars == <<tool_context, fp_pc, fp_task, uc>>

storeVars == <<cart_mandate_store, cart_metadata_store, risk_data_store>>

envVars == <<tasks, api_key, search_stubbed, sp, fl>>

\* the shopper's state before it has recorded an Intent or a search result;
\* an optional id is <<>> or <<id>>
ShopperStates ==
  [intent_mandate : {None, Unset}, user_cart_confirmation_required : {TRUE},
   risk_data : {None},
   shopping_context_id : {<<>>}, cart_mandates : {<<>>},
   product_metadata : {EmptyDict}, chosen_cart_id : {<<>>}]

UcIdle == [pc |-> "idle"]

NotFiltered == [raised |-> FALSE, value |-> <<>>, called |-> FALSE]

SpIdle == [pc |-> "idle"]

FlIdle == [pc |-> "idle"]

\* no request has arrived, nothing is stored
InitIdle ==
  /\ fp_pc = "idle"
  /\ fp_task = 0
  /\ uc = UcIdle
  /\ pc = [r \in Reqs |-> "idle"]
  /\ data_parts = [r \in Reqs |->
                     [intent_mandate |-> Missing, risk_data |-> None,
                      user_cart_confirmation_required |-> TRUE]]
  /\ bestbuy_client = [r \in Reqs |-> "none"]
  /\ closes = [r \in Reqs |-> 0]
  /\ calls = [r \in Reqs |-> <<>>]
  /\ request = [r \in Reqs |-> NoRequest]
  /\ products = [r \in Reqs |-> <<>>]
  /\ current_time = [r \in Reqs |-> 0]
  /\ filtered = [r \in Reqs |-> NotFiltered]
  /\ relevant_products = [r \in Reqs |-> <<>>]
  /\ items = [r \in Reqs |-> <<>>]
  /\ item_count = [r \in Reqs |-> 0]
  /\ events = [r \in Reqs |-> <<>>]
  /\ error = [r \in Reqs |-> "none"]
  /\ failed_raised = [r \in Reqs |-> FALSE]
  /\ cart_mandate_store = EmptyDict
  /\ cart_metadata_store = EmptyDict
  /\ risk_data_store = EmptyDict

\* the catalog client is the BestBuyClient, with or without an API key
Init ==
  /\ tasks = {1}
  /\ api_key \in BOOLEAN
  /\ search_stubbed = FALSE
  /\ tool_context \in ShopperStates
  /\ sp = SpIdle
  /\ fl = FlIdle
  /\ InitIdle

\* the catalog client is the BestBuyClient, or a test double whose
\* search_products returns any list, the empty one included
InitStub ==
  /\ tasks = {1}
  /\ api_key \in BOOLEAN
  /\ search_stubbed \in IF api_key THEN {FALSE} ELSE BOOLEAN
  /\ tool_context \in ShopperStates
  /\ sp = SpIdle
  /\ fl = FlIdle
  /\ InitIdle

(***************************************************************************)
(* The callers: the shopper's find_products, or any other A2A client.      *)
(***************************************************************************)
\* tools.py _collect_risk_data
_collect_risk_data_shopper == RiskData

\* create_intent_mandate: the shopper records the Intent of its user
CreateIntentMandate ==
  /\ fp_pc = "idle"
  /\ \A r \in Reqs : pc[r] = "idle"
  /\ tool_context.intent_mandate \in {None, Unset}
  /\ \E user_cart_confirmation_required \in BOOLEAN :
       tool_context' =
         [tool_context EXCEPT
            !.intent_mandate = TermCoffeeMaker,
            !.user_cart_confirmation_required =
              user_cart_confirmation_required]
  /\ UNCHANGED <<envVars, storeVars, fp_pc, fp_task, uc, pc, data_parts, bestbuy_client,
                 closes, calls, request, products, current_time, filtered,
                 relevant_products, items, item_count, events, error,
                 failed_raised>>

\* find_products, lines 87-102: the checks, then the message to the merchant
FindProductsCall(r) ==
  /\ r \in tasks
  /\ fp_pc # "waiting"
  /\ pc[r] = "idle"
  /\ IF tool_context.intent_mandate \in {Unset, None}
       THEN /\ fp_pc' = "raised"
            /\ UNCHANGED <<tool_context, fp_task, pc, data_parts>>
       ELSE /\ tool_context' =
                 [tool_context EXCEPT !.risk_data = _collect_risk_data_shopper]
            /\ fp_pc' = "waiting"
            /\ fp_task' = r
            /\ data_parts' =
                 [data_parts EXCEPT
                    ![r] = [intent_mandate |-> tool_context.intent_mandate,
                            user_cart_confirmation_required |->
                              tool_context.user_cart_confirmation_required,
                            risk_data |-> _collect_risk_data_shopper]]
            /\ pc' = [pc EXCEPT ![r] = "start"]
  /\ UNCHANGED <<envVars, storeVars, uc, bestbuy_client, closes, calls,
                 request, products, current_time, filtered, relevant_products,
                 items, item_count, events, error, failed_raised>>

\* _parse_cart_mandates: the mandates of the artifacts that carry one
_parse_cart_mandates(artifacts) ==
  LET with_mandate ==
        SelectSeq(artifacts, LAMBDA a : "cart_mandate" \in DOMAIN a.data)
  IN  [i \in 1..Len(with_mandate) |-> with_mandate[i].data.cart_mandate]

RECURSIVE _extract_metadata_from_artifacts(_)
\* _extract_metadata_from_artifacts: for every artifact, in order, that
\* carries both the metadata and a mandate with an id,
\* metadata_dict[cart_id] = metadata
_extract_metadata_from_artifacts(artifacts) ==
  IF artifacts = <<>>
    THEN EmptyDict
    ELSE LET n == Len(artifacts)
             metadata_dict ==
               _extract_metadata_from_artifacts(SubSeq(artifacts, 1, n - 1))
             data == artifacts[n].data
         IN  IF "cart_mandate_metadata" \in DOMAIN data
                  /\ "cart_mandate" \in DOMAIN data
               THEN Put(metadata_dict, data.cart_mandate.contents.id,
                        data.cart_mandate_metadata)
               ELSE metadata_dict

\* the artifacts of the task the merchant answers with
TaskArtifacts(r) == SelectSeq(events[r], LAMBDA e : e.kind = "artifact")

\* the state of the task the merchant answers with
TaskState(r) ==
  IF \E i \in 1..Len(events[r]) : events[r][i].kind = "completed"
    THEN "completed"
    ELSE "failed"

\* a variant that records the task's artifacts before it looks at the
\* task's state
FindProductsWritesFirst(r) ==
  /\ fp_pc = "waiting"
  /\ fp_task = r
  /\ pc[r] \in {"returned", "raised"}
  /\ tool_context' =
       [tool_context EXCEPT
          !.shopping_context_id = <<r>>,
          !.cart_mandates = _parse_cart_mandates(TaskArtifacts(r)),
          !.product_metadata =
            _extract_metadata_from_artifacts(TaskArtifacts(r))]
  /\ fp_pc' = IF TaskState(r) # "completed" THEN "raised_task" ELSE "returned"
  /\ UNCHANGED <<envVars, storeVars, fp_task, uc, pc, data_parts,
                 bestbuy_client, closes, calls, request, products,
                 current_time, filtered, relevant_products, items, item_count,
                 events, error, failed_raised>>

\* find_products, lines 102-113: the answer of the merchant to the request
\* the tool sent
FindProductsReturn(r) ==
  /\ fp_pc = "waiting"
  /\ fp_task = r
  /\ pc[r] \in {"returned", "raised"}
  /\ IF TaskState(r) # "completed"
       THEN /\ fp_pc' = "raised_task"
            /\ UNCHANGED tool_context
       ELSE /\ tool_context' =
                 [tool_context EXCEPT
                    !.shopping_context_id = <<r>>,
                    !.cart_mandates = _parse_cart_mandates(TaskArtifacts(r)),
                    !.product_metadata =
                      _extract_metadata_from_artifacts(TaskArtifacts(r))]
            /\ fp_pc' = "returned"
  /\ UNCHANGED <<envVars, storeVars, fp_task, uc, pc, data_parts,
                 bestbuy_client, closes, calls, request, products,
                 current_time, filtered, relevant_products, items, item_count,
                 events, error, failed_raised>>

\* the ids a caller may pass to update_chosen_cart_mandate
CartIds == {<<"cart", k>> : k \in 1..(WorkflowMaxResults + 1)}

\* update_chosen_cart_mandate: the first cart of cart_mandates with the id
\* is chosen; without one nothing is written
UpdateChosenCartMandate(cart_id) ==
  /\ fp_pc # "waiting"
  /\ LET cart_mandates == tool_context.cart_mandates
         found == \E i \in 1..Len(cart_mandates) :
                    cart_mandates[i].contents.id = cart_id
     IN  IF found
           THEN /\ tool_context' =
                     [tool_context EXCEPT !.chosen_cart_id = <<cart_id>>]
                /\ uc' = [pc |-> "done", cart_id |-> cart_id,
                          result |-> "selected", seen |-> tool_context,
                          left |-> tool_context']
           ELSE /\ UNCHANGED tool_context
                /\ uc' = [pc |-> "done", cart_id |-> cart_id,
                          result |-> "not found", seen |-> tool_context,
                          left |-> tool_context']
  /\ UNCHANGED <<envVars, storeVars, fp_pc, fp_task, pc, data_parts,
                 bestbuy_client, closes, calls, request, products,
                 current_time, filtered, relevant_products, items, item_count,
                 events, error, failed_raised>>

\* the task a merchant answers a discovery request with, seen from the
\* shopper: n offers cart_1..cart_n of the sample category of the request,
\* each with its metadata, and a completed or a failed task
MerchantAnswers(r) ==
  /\ pc[r] = "start"
  /\ \E n \in 0..WorkflowMaxResults, state \in {"completed", "failed"},
        t \in Times :
       LET sample == demo_catalog(DemoCategories[r])
           artifact(k) ==
             [kind |-> "artifact",
              data |-> [cart_mandate |->
                          CartMandate(PaymentItemOf(sample[k]), k, t,
                                      "Best Buy"),
                        cart_mandate_metadata |->
                          Metadata(sample[k].shortDescription,
                                   sample[k].image, sample[k].url)]]
       IN  events' = [events EXCEPT ![r] =
                        [k \in 1..n |-> artifact(k)] \o <<[kind |-> state]>>]
  /\ pc' = [pc EXCEPT ![r] = "returned"]
  /\ UNCHANGED <<envVars, shopperVars, storeVars, data_parts, bestbuy_client,
                 closes, calls, request, products, current_time, filtered,
                 relevant_products, items, item_count, error, failed_raised>>

\* a discovery request sent by another client, with any data parts
DirectRequest(r) ==
  /\ r \in tasks
  /\ fp_pc = "idle"
  /\ tool_context.intent_mandate = Unset
  /\ pc[r] = "idle"
  /\ \E dp \in DataParts : data_parts' = [data_parts EXCEPT ![r] = dp]
  /\ pc' = [pc EXCEPT ![r] = "start"]
  /\ UNCHANGED <<envVars, shopperVars, storeVars, bestbuy_client, closes,
                 calls, request, products, current_time, filtered,
                 relevant_products, items, item_count, events, error,
                 failed_raised>>

(***************************************************************************)
(* find_items_workflow.                                                    *)
(***************************************************************************)
\* message_utils.parse_canonical_object raises on a missing or invalid Intent
ParseIntentRaises(dp) == dp.intent_mandate \in {Missing, Malformed}

\* lines 56-62: parse the Intent and create the catalog client; both are
\* outside the try block, so a raise here leaves the workflow at once
Begin(r) ==
  /\ pc[r] = "start"
  /\ IF ParseIntentRaises(data_parts[r])
       THEN /\ pc' = [pc EXCEPT ![r] = "raised"]
            /\ error' = [error EXCEPT ![r] = "intent"]
            /\ UNCHANGED bestbuy_client
       ELSE /\ pc' = [pc EXCEPT ![r] = "search"]
            /\ bestbuy_client' = [bestbuy_client EXCEPT ![r] = "open"]
            /\ UNCHANGED error
  /\ UNCHANGED <<envVars, shopperVars, storeVars, data_parts, closes, calls,
                 request, products, current_time, filtered, relevant_products,
                 items, item_count, events, failed_raised>>

\* what a test double of the catalog client returns: any list, also empty
StubSearchResults ==
  {[raised |-> FALSE, products |-> ParsedProducts([i \in 1..n |-> TRUE]),
    calls |-> <<>>, request |-> NoRequest] : n \in 0..MaxFetch}

\* the results of search_products(query, max_results=3, fetch_extra=15)
\* over everything the classification and catalog services may do
SearchResults(query) ==
  IF search_stubbed
    THEN StubSearchResults
    ELSE {search_products(query, WorkflowMaxResults, <<>>, <<>>,
                          WorkflowFetchExtra, ~api_key, cls, http) :
            cls \in ClassifyOutcomes, http \in HttpOutcomes}

\* a variant that hands every search result, also an empty one, to the
\* filter and the catalog-item assembly
AlwaysCatalogBranch(search_result) == "filter"

\* lines 74 and 111: "if products:" takes the catalog branch, the else
\* the placeholder generation
BranchAfterSearch(search_result) ==
  IF Len(search_result) > 0 THEN "filter" ELSE "generate"

\* lines 66-74
Search(r) ==
  /\ pc[r] = "search"
  /\ \/ \E res \in SearchResults(data_parts[r].intent_mandate), t \in Times :
          /\ calls' = [calls EXCEPT ![r] = @ \o res.calls]
          /\ request' = [request EXCEPT ![r] = res.request]
          /\ IF res.raised
               THEN /\ pc' = [pc EXCEPT ![r] = "except"]
                    /\ error' = [error EXCEPT ![r] = "search"]
                    /\ UNCHANGED <<products, current_time>>
               ELSE /\ products' = [products EXCEPT ![r] = res.products]
                    /\ current_time' = [current_time EXCEPT ![r] = t]
                    /\ pc' = [pc EXCEPT ![r] = BranchAfterSearch(res.products)]
                    /\ UNCHANGED error
     \/ \* the classification call of _detect_category has no timeout:
        \* when the service never answers, the request stays here
        /\ api_key /\ ~search_stubbed
        /\ calls' = [calls EXCEPT ![r] = Append(@, "classify")]
        /\ pc' = [pc EXCEPT ![r] = "blocked_search"]
        /\ UNCHANGED <<request, products, current_time, error>>
  /\ UNCHANGED <<envVars, shopperVars, storeVars, data_parts, bestbuy_client,
                 closes, filtered, relevant_products, items, item_count,
                 events, failed_raised>>

\* lines 75-90: the relevance filter and the final selection
Filter(r) ==
  /\ pc[r] = "filter"
  /\ \/ \E rank \in RankOutcomes :
          LET f == _filter_relevant_products(products[r], WorkflowMaxResults, rank)
              selection == FinalSelection(products[r], f)
          IN  /\ filtered' = [filtered EXCEPT ![r] = f]
              /\ calls' = [calls EXCEPT ![r] =
                             IF f.called THEN @ \o <<"rank">> ELSE @]
              /\ IF selection.raised
                   THEN /\ pc' = [pc EXCEPT ![r] = "except"]
                        /\ error' = [error EXCEPT ![r] = "filter"]
                        /\ UNCHANGED relevant_products
                   ELSE /\ relevant_products' =
                             [relevant_products EXCEPT ![r] = selection.value]
                        /\ pc' = [pc EXCEPT ![r] =
                                    IF Len(selection.value) > 0 THEN "assemble"
                                                                ELSE "risk"]
                        /\ UNCHANGED error
     \/ \* the ranking call of _filter_relevant_products has no timeout
        /\ Len(products[r]) > WorkflowMaxResults
        /\ calls' = [calls EXCEPT ![r] = Append(@, "rank")]
        /\ pc' = [pc EXCEPT ![r] = "blocked_filter"]
        /\ UNCHANGED <<filtered, relevant_products, error>>
  /\ item_count' = [item_count EXCEPT ![r] = 0]
  /\ UNCHANGED <<envVars, shopperVars, storeVars, data_parts, bestbuy_client,
                 closes, request, products, current_time, items, events,
                 failed_raised>>

\* a variant that swallows a failure of add_artifact and goes on
CreateAndAddSwallowingErrors(r, item, count, merchant_name, product_description, product_image, product_url, next_pc) ==
  LET cart_mandate == CartMandate(item, count, current_time[r], merchant_name)
      metadata == Metadata(product_description, product_image, product_url)
      id == cart_mandate.contents.id
      artifact == [kind |-> "artifact",
                   data |-> [cart_mandate |-> cart_mandate,
                             cart_mandate_metadata |-> metadata]]
  IN  /\ cart_metadata_store' = Put(cart_metadata_store, id, metadata)
      /\ cart_mandate_store' = Put(cart_mandate_store, id, cart_mandate)
      /\ pc' = [pc EXCEPT ![r] = next_pc]
      /\ UNCHANGED error
      /\ \E ok \in BOOLEAN :
           IF ok THEN events' = [events EXCEPT ![r] = Append(@, artifact)]
                 ELSE UNCHANGED events

\* a variant that sends the mandate and its metadata as two artifacts, one
\* after the other; the second add_artifact may raise after the first went out
CreateAndAddSeparately(r, item, count, merchant_name, product_description, product_image, product_url, next_pc) ==
  LET cart_mandate == CartMandate(item, count, current_time[r], merchant_name)
      metadata == Metadata(product_description, product_image, product_url)
      id == cart_mandate.contents.id
      first == [kind |-> "artifact", data |-> [cart_mandate |-> cart_mandate]]
      second == [kind |-> "artifact",
                 data |-> [cart_mandate_metadata |-> metadata]]
  IN  /\ cart_metadata_store' = Put(cart_metadata_store, id, metadata)
      /\ cart_mandate_store' = Put(cart_mandate_store, id, cart_mandate)
      /\ \E ok \in BOOLEAN :
           IF ok
             THEN /\ events' = [events EXCEPT ![r] = (@ \o <<first>>) \o <<second>>]
                  /\ pc' = [pc EXCEPT ![r] = next_pc]
                  /\ UNCHANGED error
             ELSE /\ events' = [events EXCEPT ![r] = Append(@, first)]
                  /\ pc' = [pc EXCEPT ![r] = "except"]
                  /\ error' = [error EXCEPT ![r] = "add_artifact"]

\* _create_and_add_cart_mandate_artifact: the mandate and its metadata are
\* stored, then sent to the updater as one artifact; add_artifact may raise
CreateAndAddCartMandateArtifact(r, item, count, merchant_name, product_description, product_image, product_url, next_pc) ==
  LET cart_mandate == CartMandate(item, count, current_time[r], merchant_name)
      metadata == Metadata(product_description, product_image, product_url)
      id == cart_mandate.contents.id
      artifact == [kind |-> "artifact",
                   data |-> [cart_mandate |-> cart_mandate,
                             cart_mandate_metadata |-> metadata]]
  IN  /\ cart_metadata_store' = Put(cart_metadata_store, id, metadata)
      /\ cart_mandate_store' = Put(cart_mandate_store, id, cart_mandate)
      /\ \E ok \in BOOLEAN :
           IF ok
             THEN /\ events' = [events EXCEPT ![r] = Append(@, artifact)]
                  /\ pc' = [pc EXCEPT ![r] = next_pc]
                  /\ UNCHANGED error
             ELSE /\ pc' = [pc EXCEPT ![r] = "except"]
                  /\ error' = [error EXCEPT ![r] = "add_artifact"]
                  /\ UNCHANGED events

\* lines 91-110: one iteration of the loop over relevant_products
Assemble(r) ==
  /\ pc[r] = "assemble"
  /\ item_count[r] < Len(relevant_products[r])
  /\ LET count == item_count[r] + 1
         product == relevant_products[r][count]
     IN  /\ item_count' = [item_count EXCEPT ![r] = count]
         /\ CreateAndAddCartMandateArtifact(
              r, PaymentItemOf(product), count, "Best Buy",
              product.shortDescription, product.image, product.url,
              IF count < Len(relevant_products[r]) THEN "assemble" ELSE "risk")
  /\ UNCHANGED <<envVars, shopperVars, risk_data_store, data_parts,
                 bestbuy_client, closes, calls, request, products,
                 current_time, filtered, relevant_products, items,
                 failed_raised>>

\* a variant that takes a response without a parsed list for an empty list
GenerateNoneAsEmpty(r) ==
  /\ pc[r] = "generate"
  /\ \E gen \in GenOutcomes :
       /\ calls' = [calls EXCEPT ![r] =
                      IF gen.kind = "client_error" THEN @
                                                   ELSE @ \o <<"generate">>]
       /\ IF gen.kind \in {"client_error", "call_error"}
            THEN /\ pc' = [pc EXCEPT ![r] = "except"]
                 /\ error' = [error EXCEPT ![r] = "generate"]
                 /\ UNCHANGED items
            ELSE /\ items' = [items EXCEPT ![r] =
                                [i \in 1..gen.n |-> GeneratedItem(i)]]
                 /\ pc' = [pc EXCEPT ![r] =
                             IF gen.n > 0 THEN "generated" ELSE "risk"]
                 /\ error' = [error EXCEPT ![r] =
                                IF gen.kind = "unparsable" THEN "generate"
                                                           ELSE @]
  /\ item_count' = [item_count EXCEPT ![r] = 0]
  /\ UNCHANGED <<envVars, shopperVars, storeVars, data_parts, bestbuy_client,
                 closes, request, products, current_time, filtered,
                 relevant_products, events, failed_raised>>

\* _generate_fallback_products, lines 253-274: the generation call
Generate(r) ==
  /\ pc[r] = "generate"
  /\ \/ \E gen \in GenOutcomes :
          /\ calls' = [calls EXCEPT ![r] =
                         IF gen.kind = "client_error" THEN @
                                                      ELSE @ \o <<"generate">>]
          /\ IF gen.kind # "items"
               THEN /\ pc' = [pc EXCEPT ![r] = "except"]
                    /\ error' = [error EXCEPT ![r] = "generate"]
                    /\ UNCHANGED items
               ELSE /\ items' = [items EXCEPT ![r] =
                                   [i \in 1..gen.n |-> GeneratedItem(i)]]
                    /\ pc' = [pc EXCEPT ![r] =
                                IF gen.n > 0 THEN "generated" ELSE "risk"]
                    /\ UNCHANGED error
     \/ \* the generation call has no timeout
        /\ calls' = [calls EXCEPT ![r] = Append(@, "generate")]
        /\ pc' = [pc EXCEPT ![r] = "blocked_generate"]
        /\ UNCHANGED <<items, error>>
  /\ item_count' = [item_count EXCEPT ![r] = 0]
  /\ UNCHANGED <<envVars, shopperVars, storeVars, data_parts, bestbuy_client,
                 closes, request, products, current_time, filtered,
                 relevant_products, events, failed_raised>>

\* _generate_fallback_products, lines 275-279: one iteration of the loop
AssembleGenerated(r) ==
  /\ pc[r] = "generated"
  /\ item_count[r] < Len(items[r])
  /\ LET count == item_count[r] + 1
     IN  /\ item_count' = [item_count EXCEPT ![r] = count]
         /\ CreateAndAddCartMandateArtifact(
              r, items[r][count], count, "Generic Merchant", None, None, None,
              IF count < Len(items[r]) THEN "generated" ELSE "risk")
  /\ UNCHANGED <<envVars, shopperVars, risk_data_store, data_parts,
                 bestbuy_client, closes, calls, request, products,
                 current_time, filtered, relevant_products, items,
                 failed_raised>>

\* lines 116-118: updater.add_artifact is a coroutine function (line 339
\* awaits it); here it is called without await, so the coroutine never runs
\* and the updater receives nothing
RiskArtifactEvents(risk_data) == <<>>

\* a variant in which a statement after updater.complete() may raise
CompleteThenRaise(r) ==
  /\ pc[r] = "risk"
  /\ risk_data_store' = Put(risk_data_store, r, RiskData)
  /\ events' = [events EXCEPT ![r] =
                  (@ \o RiskArtifactEvents(RiskData))
                    \o <<[kind |-> "completed"]>>]
  /\ \E ok \in BOOLEAN :
       IF ok
         THEN /\ pc' = [pc EXCEPT ![r] = "finally"]
              /\ UNCHANGED error
         ELSE /\ pc' = [pc EXCEPT ![r] = "except"]
              /\ error' = [error EXCEPT ![r] = "complete"]
  /\ UNCHANGED <<envVars, shopperVars, cart_mandate_store,
                 cart_metadata_store, data_parts, bestbuy_client, closes,
                 calls, request, products, current_time, filtered,
                 relevant_products, items, item_count, failed_raised>>

\* lines 115-119: collect the risk data, build the risk artifact, complete
Complete(r) ==
  /\ pc[r] = "risk"
  /\ risk_data_store' = Put(risk_data_store, r, RiskData)
  /\ \E ok \in BOOLEAN :
       IF ok
         THEN /\ events' = [events EXCEPT ![r] =
                              (@ \o RiskArtifactEvents(RiskData))
                                \o <<[kind |-> "completed"]>>]
              /\ pc' = [pc EXCEPT ![r] = "finally"]
              /\ UNCHANGED error
         ELSE /\ events' = [events EXCEPT ![r] =
                              @ \o RiskArtifactEvents(RiskData)]
              /\ pc' = [pc EXCEPT ![r] = "except"]
              /\ error' = [error EXCEPT ![r] = "complete"]
  /\ UNCHANGED <<envVars, shopperVars, cart_mandate_store,
                 cart_metadata_store, data_parts, bestbuy_client, closes,
                 calls, request, products, current_time, filtered,
                 relevant_products, items, item_count, failed_raised>>

\* lines 121-126: report the failure; updater.failed may itself raise
Except(r) ==
  /\ pc[r] = "except"
  /\ \E ok \in BOOLEAN :
       IF ok
         THEN /\ events' = [events EXCEPT ![r] =
                              Append(@, [kind |-> "failed",
                                         message |-> <<"Error finding products",
                                                       error[r]>>])]
              /\ UNCHANGED failed_raised
         ELSE /\ failed_raised' = [failed_raised EXCEPT ![r] = TRUE]
              /\ UNCHANGED events
  /\ pc' = [pc EXCEPT ![r] = "finally"]
  /\ UNCHANGED <<envVars, shopperVars, storeVars, data_parts, bestbuy_client,
                 closes, calls, request, products, current_time, filtered,
                 relevant_products, items, item_count, error>>

\* a variant that closes the client at the end of the try body only
CloseOnSuccessOnly(r) ==
  /\ pc[r] = "finally"
  /\ bestbuy_client' = [bestbuy_client EXCEPT ![r] =
                          IF error[r] = "none" THEN "closed" ELSE @]
  /\ closes' = [closes EXCEPT ![r] = IF error[r] = "none" THEN @ + 1 ELSE @]
  /\ pc' = [pc EXCEPT ![r] = IF failed_raised[r] THEN "raised" ELSE "returned"]
  /\ UNCHANGED <<envVars, shopperVars, storeVars, data_parts, calls, request,
                 products, current_time, filtered, relevant_products, items,
                 item_count, events, error, failed_raised>>

\* lines 127-128 and BestBuyClient.close
Finally(r) ==
  /\ pc[r] = "finally"
  /\ bestbuy_client' = [bestbuy_client EXCEPT ![r] = "closed"]
  /\ closes' = [closes EXCEPT ![r] = @ + 1]
  /\ pc' = [pc EXCEPT ![r] = IF failed_raised[r] THEN "raised" ELSE "returned"]
  /\ UNCHANGED <<envVars, shopperVars, storeVars, data_parts, calls, request,
                 products, current_time, filtered, relevant_products, items,
                 item_count, events, error, failed_raised>>

Next ==
  \/ CreateIntentMandate
  \/ \E r \in Reqs :
       \/ FindProductsCall(r)
       \/ FindProductsReturn(r)
       \/ DirectRequest(r)
       \/ Begin(r)
       \/ Search(r)
       \/ Filter(r)
       \/ Assemble(r)
       \/ Complete(r)
       \/ Except(r)
       \/ Finally(r)

\* The BestBuyClient's search_products never returns an empty list to
\* find_items_workflow (RealSearchNeverEmpty below), so the placeholder
\* branch of lines 111-113 runs only with a substituted client.
NextStub ==
  \/ Next
  \/ \E r \in Reqs :
       \/ Generate(r)
       \/ AssembleGenerated(r)

Spec == Init /\ [][Next]_vars

\* one shopper session: its tools called in any order, one at a time, and
\* the merchant seen through the tasks it answers with
NextShopper ==
  \/ CreateIntentMandate
  \/ \E cart_id \in CartIds : UpdateChosenCartMandate(cart_id)
  \/ \E r \in Reqs :
       \/ FindProductsCall(r)
       \/ MerchantAnswers(r)
       \/ FindProductsReturn(r)

InitShopper ==
  /\ tasks = {1, 2}
  /\ api_key = FALSE
  /\ search_stubbed = FALSE
  /\ tool_context \in {t \in ShopperStates : t.intent_mandate = None}
  /\ sp = SpIdle
  /\ fl = FlIdle
  /\ InitIdle

SpecShopper == InitShopper /\ [][NextShopper]_vars

\* two requests handled by the same merchant process, their steps
\* interleaved at will; no API key, so the catalog client is in demo mode
InitPair ==
  /\ tasks = {1, 2}
  /\ api_key = FALSE
  /\ search_stubbed = FALSE
  /\ tool_context \in ShopperStates
  /\ sp = SpIdle
  /\ fl = FlIdle
  /\ InitIdle

SpecPair == InitPair /\ [][Next]_vars

SpecStub == InitStub /\ [][NextStub]_vars

\* the steps of one request's find_items_workflow coroutine
WorkflowStep(r) ==
  \/ Begin(r)
  \/ Search(r)
  \/ Filter(r)
  \/ Assemble(r)
  \/ Complete(r)
  \/ Except(r)
  \/ Finally(r)

\* the event loop runs a coroutine that can take a step: a request whose
\* next step is enabled eventually takes it
SpecLive == Init /\ [][Next]_vars /\ \A r \in Reqs : WF_vars(WorkflowStep(r))

(***************************************************************************)
(* search_products called on its own, over its arguments and over what     *)
(* the classification and catalog services do.                             *)
(***************************************************************************)
\* largest max_results of a direct call
MaxCount == 4

SearchArgs ==
  [query : Terms, max_results : 1..MaxCount,
   min_price : {<<>>, <<0>>, <<20>>, <<80>>}, max_price : {<<>>, <<500>>},
   fetch_extra : {2, WorkflowFetchExtra}, demo_mode : BOOLEAN]

InitSearch ==
  /\ tasks = {}
  /\ api_key = FALSE
  /\ search_stubbed = FALSE
  /\ tool_context \in {t \in ShopperStates : t.intent_mandate = Unset}
  /\ sp \in {[pc |-> "call", args |-> a] : a \in SearchArgs}
  /\ fl = FlIdle
  /\ InitIdle

SearchProductsCall ==
  /\ sp.pc = "call"
  /\ \E cls \in ClassifyOutcomes, http \in HttpOutcomes :
       sp' = [pc |-> "done", args |-> sp.args, cls |-> cls, http |-> http,
              result |-> search_products(
                           sp.args.query, sp.args.max_results,
                           sp.args.min_price, sp.args.max_price,
                           sp.args.fetch_extra, sp.args.demo_mode, cls, http)]
  /\ UNCHANGED <<tasks, api_key, search_stubbed, fl, shopperVars, storeVars, pc,
                 data_parts, bestbuy_client, closes, calls, request, products,
                 current_time, filtered, relevant_products, items, item_count,
                 events, error, failed_raised>>

NextSearch == SearchProductsCall

SpecSearch == InitSearch /\ [][NextSearch]_vars

(***************************************************************************)
(* _filter_relevant_products called on its own, over candidate lists,      *)
(* desired counts and what the ranking service does.                       *)
(***************************************************************************)
FilterArgs ==
  [products : {ParsedProducts([i \in 1..n |-> TRUE]) : n \in 0..MaxFetch},
   max_results : 0..MaxCount]

InitFilter ==
  /\ tasks = {}
  /\ api_key = FALSE
  /\ search_stubbed = FALSE
  /\ tool_context \in {t \in ShopperStates : t.intent_mandate = Unset}
  /\ sp = SpIdle
  /\ fl \in {[pc |-> "call", args |-> a] : a \in FilterArgs}
  /\ InitIdle

FilterCall ==
  /\ fl.pc = "call"
  /\ \E rank \in RankOutcomes :
       fl' = [pc |-> "done", args |-> fl.args, rank |-> rank,
              result |-> _filter_relevant_products(
                           fl.args.products, fl.args.max_results, rank)]
  /\ UNCHANGED <<tasks, api_key, search_stubbed, sp, shopperVars, storeVars,
                 pc, data_parts, bestbuy_client, closes, calls, request,
                 products, current_time, filtered, relevant_products, items,
                 item_count, events, error, failed_raised>>

NextFilter == FilterCall

SpecFilter == InitFilter /\ [][NextFilter]_vars

(***************************************************************************)
(* Properties.                                                             *)
(***************************************************************************)
\* with the BestBuyClient the workflow never reaches the placeholder branch
RealSearchNeverEmpty ==
  \A r \in Reqs :
    pc[r] \in {"generate", "generated", "blocked_generate"}
      \/ error[r] = "generate"
      \/ Len(items[r]) > 0
      => search_stubbed

\* find_items_workflow has returned or raised
Done(r) == pc[r] \in {"returned", "raised"}

IsPair(e) == e.kind = "artifact" /\ "cart_mandate" \in DOMAIN e.data

IsRisk(e) == e.kind = "artifact" /\ "risk_data" \in DOMAIN e.data

IsTerminal(e) == e.kind \in {"completed", "failed"}

Pairs(r) == SelectSeq(events[r], IsPair)

HasCompleted(r) == \E i \in 1..Len(events[r]) : events[r][i].kind = "completed"

HasFailed(r) == \E i \in 1..Len(events[r]) : events[r][i].kind = "failed"

\* The failure report was issued: updater.failed was called with the
\* failure message.  The sink has the failed signal unless the call itself
\* raised, and then the workflow raises after closing its client.
FailureReported(r) ==
  HasFailed(r) \/ (failed_raised[r] /\ pc[r] \in {"finally", "raised"})

\* pairs, then one RiskToken record, then one terminal signal
InSinkOrder(ev) ==
  /\ Len(ev) >= 2
  /\ \A i \in 1..(Len(ev) - 2) : IsPair(ev[i])
  /\ IsRisk(ev[Len(ev) - 1])
  /\ IsTerminal(ev[Len(ev)])

\* C1: the records a request sends to the sink are zero or more (Offer,
\* OfferMetadata) pairs, then exactly one RiskToken record, then one
\* terminal signal, and nothing follows the terminal signal: every terminal
\* signal in the sink is the last record and directly follows the one
\* RiskToken record, which follows only pairs; a request that entered the
\* pipeline ends with such a sequence.
C1_SinkOrder ==
  \A r \in Reqs :
    /\ \A i \in 1..Len(events[r]) :
         IsTerminal(events[r][i]) => InSinkOrder(SubSeq(events[r], 1, i))
                                       /\ i = Len(events[r])
    /\ (pc[r] = "returned") => InSinkOrder(events[r])

\* C2: an exception raised while handling a request, a malformed or missing
\* Intent included, is reported through the sink's failed signal, and the
\* request is never reported as completed.
C2_ExceptionsReported ==
  \A r \in Reqs :
    error[r] # "none" =>
      /\ ~HasCompleted(r)
      /\ Done(r) => FailureReported(r)

\* C3: the catalog client of a request is closed exactly once before the
\* workflow returns or raises, on every exit path; it is never open after
\* the request has ended, never closed twice, and never used (by the search)
\* after it was closed.
C3_ClientClosedOnce ==
  \A r \in Reqs :
    /\ closes[r] <= 1
    /\ (Done(r) /\ error[r] # "intent") =>
         bestbuy_client[r] = "closed" /\ closes[r] = 1
    /\ Done(r) => bestbuy_client[r] # "open"
    /\ bestbuy_client[r] = "closed" => Done(r)
    /\ pc[r] = "search" => bestbuy_client[r] = "open"

\* C3 witness: the failure report itself raised, and the client was closed
\* before the workflow raised.
C3_Witness ==
  \E r \in Reqs :
    pc[r] = "raised" /\ failed_raised[r] /\ error[r] = "complete"
      /\ closes[r] = 1

\* C4: the relevance filter returns at most desired_count items, whatever
\* the ranking response.
C4_FilterLength ==
  \A r \in Reqs : Len(filtered[r].value) <= WorkflowMaxResults

\* C5: a failure of category classification never fails the search or the
\* request: once the search has run with an API key, no error came out of
\* it and the catalog request was sent.
C5_ClassificationNeverFatal ==
  \A r \in Reqs :
    /\ error[r] # "search"
    /\ (api_key /\ error[r] # "intent"
          /\ pc[r] \notin {"idle", "start", "search", "blocked_search"})
         => request[r].sent

\* the catalog call failed or brought no record that parses
CatalogGaveNothing(http) ==
  http.kind # "ok" \/ \A i \in 1..Len(http.flags) : ~http.flags[i]

\* C6: when the catalog call fails in transport, returns a non-2xx status,
\* an empty list or only records that do not parse, search_products raises
\* nothing and returns a non-empty list of items of the built-in sample
\* catalog, for every term and every desired count >= 1.
C6_SearchFallback ==
  (sp.pc = "done" /\ ~sp.args.demo_mode /\ sp.cls.kind # "client_error"
     /\ CatalogGaveNothing(sp.http)) =>
    /\ ~sp.result.raised
    /\ Len(sp.result.products) > 0
    /\ \A i \in 1..Len(sp.result.products) :
         \E j \in 1..Len(AllDemoProducts) :
           sp.result.products[i] = AllDemoProducts[j]

\* C6 witness: a response whose records all fail to parse, for a term that
\* matches no sample category and a desired count of 1.
C6_Witness ==
  /\ sp.pc = "done" /\ ~sp.args.demo_mode
  /\ sp.cls.kind = "call_error"
  /\ sp.http.kind = "ok" /\ sp.http.flags = <<FALSE, FALSE>>
  /\ sp.args.query = TermUsb /\ sp.args.max_results = 1
  /\ Len(sp.result.products) = 1

\* the k-th emitted pair is built from the k-th of the given payment items
PairsCover(r, payment_items) ==
  /\ Len(Pairs(r)) = Len(payment_items)
  /\ \A k \in 1..Len(payment_items) :
       Pairs(r)[k].data.cart_mandate.contents.payment_request.details
         .display_items = <<payment_items[k]>>

\* the payment items of the final selection, or the generated placeholders
ExpectedItems(r) ==
  IF Len(products[r]) > 0
    THEN [k \in 1..Len(relevant_products[r]) |->
            PaymentItemOf(relevant_products[r][k])]
    ELSE items[r]

\* a completed request has emitted one pair for every item
CompletedIsFull ==
  \A r \in Reqs : HasCompleted(r) => PairsCover(r, ExpectedItems(r))

\* C7: a completed request has emitted one pair for every item of the final
\* selection or every generated placeholder, in order; a request whose
\* emission failed part-way is reported as failed and never as completed.
C7_PartialNeverSuccess ==
  /\ CompletedIsFull
  /\ \A r \in Reqs :
       error[r] = "add_artifact" =>
         /\ ~HasCompleted(r)
         /\ Done(r) => FailureReported(r)

\* C7 witness: the second pair of three failed to go out, and the request
\* was reported as failed.
C7_Witness ==
  \E r \in Reqs :
    /\ error[r] = "add_artifact" /\ pc[r] = "returned" /\ HasFailed(r)
    /\ Len(relevant_products[r]) = 3 /\ Len(Pairs(r)) = 1

\* C8: with the Intent or the RiskToken missing, the session ends in
\* failure before any external call is made and before any offer is
\* emitted; the shopper's find_products sends no request at all.
C8_MissingConfigFailsEarly ==
  /\ fp_pc = "raised" => fp_task = 0 /\ \A r \in Reqs : pc[r] = "idle"
  /\ \A r \in Reqs :
       (pc[r] # "idle" /\ (data_parts[r].intent_mandate = Missing
                             \/ data_parts[r].risk_data = None)) =>
         /\ calls[r] = <<>>
         /\ Len(Pairs(r)) = 0
         /\ ~HasCompleted(r)
         /\ Done(r) => FailureReported(r)

\* no Offer of the request was emitted or stored
NoOffer(r) ==
  /\ Len(Pairs(r)) = 0
  /\ DOMAIN cart_mandate_store = {}
  /\ DOMAIN cart_metadata_store = {}

\* C9: when the search returns nothing and the placeholder-generation call
\* fails (it raises, or its response has no parsable list), the request is
\* reported as failed, never as completed, and no Offer of it was emitted or
\* stored.
C9_GenerationFailure ==
  \A r \in Reqs :
    error[r] = "generate" =>
      /\ Len(products[r]) = 0
      /\ NoOffer(r)
      /\ ~HasCompleted(r)
      /\ Done(r) => FailureReported(r)

\* C9 witness: the generation response had no parsable list, and the request
\* was reported as failed.
C9_Witness ==
  \E r \in Reqs :
    /\ error[r] = "generate" /\ pc[r] = "returned" /\ HasFailed(r)
    /\ calls[r] = <<"generate">>

\* the relevance filter has run or was skipped over: the request is past it
PastFilter(r) ==
  /\ Len(products[r]) > 0
  /\ pc[r] \notin {"idle", "start", "search", "filter", "blocked_filter"}

\* s is the first 3 items of t, in order
IsFirstThree(s, t) ==
  /\ Len(s) = Min(3, Len(t))
  /\ \A i \in 1..Len(s) : s[i] = t[i]

\* C10: with a non-empty search result no outcome of the relevance filter
\* fails the pipeline: assembly starts with a non-empty selection, which is
\* the first 3 search results in order when the filter raised or returned
\* nothing.
C10_FilterNeverFatal ==
  \A r \in Reqs :
    /\ error[r] # "filter"
    /\ PastFilter(r) =>
         /\ Len(relevant_products[r]) > 0
         /\ pc[r] # "assemble" => item_count[r] >= 1
         /\ (filtered[r].raised \/ Len(filtered[r].value) = 0) =>
              IsFirstThree(relevant_products[r], products[r])

\* C10 witness: the filter raised while creating its ranking client, and the
\* first offer of the fallback selection went out.
C10_Witness ==
  \E r \in Reqs :
    /\ filtered[r].raised /\ Len(products[r]) > 3
    /\ Len(relevant_products[r]) = 3 /\ Len(Pairs(r)) >= 1

\* the merchant name a request passes to the assembler
OwnMerchant(r) ==
  IF Len(products[r]) > 0 THEN "Best Buy" ELSE "Generic Merchant"

\* the Offer the request builds from its k-th item when it runs alone
OwnMandate(r, k) ==
  CartMandate(ExpectedItems(r)[k], k, current_time[r], OwnMerchant(r))

\* the OfferMetadata the request builds from its k-th item
OwnMetadata(r, k) ==
  IF Len(products[r]) > 0
    THEN Metadata(relevant_products[r][k].shortDescription,
                  relevant_products[r][k].image, relevant_products[r][k].url)
    ELSE Metadata(None, None, None)

\* C11: requests share no mutable state: for every offer a request has
\* assembled, the mandate store and the metadata store hold under the
\* offer's id the Offer and the OfferMetadata of that request, and the pair
\* the request emitted is that same pair, whatever another request running
\* at the same time does.
C11_RequestsIsolated ==
  \A r \in Reqs :
    \A k \in 1..item_count[r] :
      LET id == <<"cart", k>>
      IN  /\ id \in DOMAIN cart_mandate_store
          /\ cart_mandate_store[id] = OwnMandate(r, k)
          /\ id \in DOMAIN cart_metadata_store
          /\ cart_metadata_store[id] = OwnMetadata(r, k)
          /\ k <= Len(Pairs(r)) =>
               Pairs(r)[k].data = [cart_mandate |-> OwnMandate(r, k),
                                   cart_mandate_metadata |-> OwnMetadata(r, k)]

\* the Offer of an emitted pair
OfferOf(e) == e.data.cart_mandate.contents

\* C12: within one request the k-th emitted offer is built from the k-th
\* item of the final selection (or the k-th generated placeholder) and has
\* offer id cart_k and order id order_k; the offer ids of a request are
\* pairwise distinct, and so are its order ids.
C12_SequenceNumbers ==
  \A r \in Reqs :
    /\ \A k \in 1..Len(Pairs(r)) :
         /\ OfferOf(Pairs(r)[k]).id = <<"cart", k>>
         /\ OfferOf(Pairs(r)[k]).payment_request.details.id = <<"order", k>>
         /\ OfferOf(Pairs(r)[k]).payment_request.details.display_items
              = <<ExpectedItems(r)[k]>>
    /\ \A j, k \in 1..Len(Pairs(r)) :
         j # k =>
           /\ OfferOf(Pairs(r)[j]).id # OfferOf(Pairs(r)[k]).id
           /\ OfferOf(Pairs(r)[j]).payment_request.details.id
                # OfferOf(Pairs(r)[k]).payment_request.details.id

\* C12 witness: the ranking reordered the candidates, and the three offers
\* of the selection went out.
C12_Witness ==
  \E r \in Reqs :
    /\ filtered[r].called /\ Len(relevant_products[r]) = 3
    /\ relevant_products[r] # SliceTo(products[r], 3)
    /\ Len(Pairs(r)) = 3

RECURSIVE SumOfAmounts(_)
\* the sum of the amounts of a list of line items
SumOfAmounts(display_items) ==
  IF display_items = <<>>
    THEN 0
    ELSE Head(display_items).amount.value + SumOfAmounts(Tail(display_items))

\* C13: every emitted Offer has one total whose amount is the sum of the
\* amounts of its line items, in the currency of the items, and its expiry
\* is the creation time of the request plus 30 minutes, so strictly after
\* it; for offers of catalog items and of generated placeholder items.
C13_TotalAndExpiry ==
  \A r \in Reqs :
    \A k \in 1..Len(Pairs(r)) :
      LET offer == OfferOf(Pairs(r)[k])
          details == offer.payment_request.details
      IN  /\ details.total.amount.value = SumOfAmounts(details.display_items)
          /\ \A i \in 1..Len(details.display_items) :
               details.display_items[i].amount.currency
                 = details.total.amount.currency
          /\ offer.cart_expiry = current_time[r] + 30
          /\ offer.cart_expiry > current_time[r]

\* C13 witness: a request completed with two offers built from generated
\* placeholder items.
C13_Witness ==
  \E r \in Reqs :
    /\ Len(items[r]) = 2 /\ Len(Pairs(r)) = 2 /\ HasCompleted(r)

\* C14: an Offer and its OfferMetadata reach the sink as one record: every
\* record of the sink that carries an Offer carries its metadata and the
\* other way round, the metadata is the one the request built for the offer
\* of that id, and a failed emission leaves neither of the two in the sink.
C14_AtomicPair ==
  \A r \in Reqs :
    /\ \A i \in 1..Len(events[r]) :
         events[r][i].kind = "artifact" =>
           ("cart_mandate" \in DOMAIN events[r][i].data
              <=> "cart_mandate_metadata" \in DOMAIN events[r][i].data)
    /\ \A k \in 1..Len(Pairs(r)) :
         Pairs(r)[k].data.cart_mandate_metadata = OwnMetadata(r, k)
    /\ error[r] = "add_artifact" => Len(Pairs(r)) = item_count[r] - 1

\* C14 witness: the third emission of a request failed after two pairs went
\* out.
C14_Witness ==
  \E r \in Reqs :
    /\ error[r] = "add_artifact" /\ item_count[r] = 3 /\ Len(Pairs(r)) = 2

\* the merchant's metadata store returns, under the id of every emitted
\* offer, the metadata passed to the assembler for that offer
MerchantStoreRoundTrip ==
  \A r \in Reqs :
    \A k \in 1..Len(Pairs(r)) :
      LET id == OfferOf(Pairs(r)[k]).id
      IN  /\ id \in DOMAIN cart_metadata_store
          /\ cart_metadata_store[id] = OwnMetadata(r, k)

\* the map the shopper built from the artifacts of its request returns,
\* under the id of every emitted offer, the metadata passed to the assembler
ShopperMapRoundTrip ==
  \A r \in Reqs :
    (fp_pc = "returned" /\ tool_context.shopping_context_id = <<r>>) =>
      \A k \in 1..Len(Pairs(r)) :
        LET id == OfferOf(Pairs(r)[k]).id
        IN  /\ id \in DOMAIN tool_context.product_metadata
            /\ tool_context.product_metadata[id] = OwnMetadata(r, k)

\* C15: round trip: for every emitted (Offer, OfferMetadata) pair, the
\* lookup of the offer's id in the merchant's metadata store and in the map
\* the shopper builds from the received artifacts returns the description,
\* image and url that were passed to the assembler for that offer.
C15_MetadataRoundTrip == MerchantStoreRoundTrip /\ ShopperMapRoundTrip

\* the shopper holds the offers and the metadata of a completed request
ShopperGotOffers ==
  /\ fp_pc = "returned"
  /\ Len(tool_context.cart_mandates) = 3
  /\ DOMAIN tool_context.product_metadata
       = {<<"cart", 1>>, <<"cart", 2>>, <<"cart", 3>>}

\* the stage of a request: 1 START, 2 SEARCHING, 3 FILTERING, 4 ASSEMBLING
\* (the placeholder generation included), 5 COMPLETED, 6 ERRORED
StageRank(r) ==
  IF HasCompleted(r) THEN 5
  ELSE IF error[r] # "none" THEN 6
  ELSE IF pc[r] \in {"idle", "start"} THEN 1
  ELSE IF pc[r] \in {"search", "blocked_search"} THEN 2
  ELSE IF pc[r] \in {"filter", "blocked_filter"} THEN 3
  ELSE 4

\* every element of s is an element of t
AllFrom(s, t) == \A i \in 1..Len(s) : \E j \in 1..Len(t) : s[i] = t[j]

\* what holds of the stages in every state
StageInvariant ==
  \A r \in Reqs :
    /\ ~(HasCompleted(r)
           /\ (HasFailed(r) \/ failed_raised[r] \/ error[r] # "none"
                 \/ pc[r] = "raised"))
    /\ \A i \in 1..Len(events[r]) :
         IsTerminal(events[r][i]) => i = Len(events[r])
    /\ StageRank(r) = 3 => Len(products[r]) > 0
    /\ (pc[r] = "assemble" \/ Len(relevant_products[r]) > 0) =>
         /\ Len(products[r]) > 0
         /\ Len(relevant_products[r]) > 0
         /\ AllFrom(relevant_products[r], products[r])
         /\ AllFrom(relevant_products[r], filtered[r].value)
              \/ filtered[r].raised
    /\ (Len(Pairs(r)) > 0 /\ Len(products[r]) > 0) =>
         Len(relevant_products[r]) > 0

\* what holds of the stages in every step: a request stays in its stage,
\* moves to the next one or to ERRORED; FILTERING is left out only when the
\* search returned nothing; COMPLETED and ERRORED are never left
StageStep ==
  \A r \in Reqs :
    LET a == StageRank(r)
        b == StageRank(r)'
    IN  \/ b = a
        \/ a < 5 /\ b = a + 1
        \/ a < 5 /\ b = 6
        \/ a = 2 /\ b = 4 /\ Len(products'[r]) = 0

ErroredFromStart == \E r \in Reqs : error[r] = "intent"

ErroredFromSearching == \E r \in Reqs : error[r] = "search" /\ HasFailed(r)

ErroredFromAssembling ==
  \E r \in Reqs : error[r] \in {"add_artifact", "complete"} /\ HasFailed(r)

\* no failure comes out of FILTERING itself: a request leaves it for ASSEMBLING
NoErrorWhileFiltering ==
  [][\A r \in Reqs : StageRank(r) = 3 => StageRank(r)' \in {3, 4}]_vars

\* C17: every request that was started eventually returns or raises, that
\* is, reaches COMPLETED or ERRORED: no stage blocks for ever.
C17_Terminates == \A r \in Reqs : (pc[r] = "start") ~> Done(r)

\* a request waits for ever for the answer of a model call
Blocked(r) ==
  pc[r] \in {"blocked_search", "blocked_filter", "blocked_generate"}

\* a started request returns or raises unless a model call never answers
TerminatesUnlessBlocked ==
  \A r \in Reqs : (pc[r] = "start") ~> (Done(r) \/ Blocked(r))

\* C18: for every candidate list no longer than the desired count the
\* filter returns its input, in the same order, raises nothing and makes no
\* ranking call, whatever the ranking service would do.
C18_FilterNoOp ==
  (fl.pc = "done" /\ Len(fl.args.products) <= fl.args.max_results) =>
    /\ ~fl.result.raised
    /\ fl.result.value = fl.args.products
    /\ ~fl.result.called

\* C18 witness: as many candidates as the desired count, 3, and a ranking
\* service whose client cannot even be created.
C18_Witness ==
  /\ fl.pc = "done" /\ fl.rank.kind = "client_error"
  /\ Len(fl.args.products) = 3 /\ fl.args.max_results = 3
  /\ fl.result.value = fl.args.products

\* idx is an index of the list
InRange(idx, list) == 0 <= idx /\ idx < Len(list)

RECURSIVE InRangePicks(_, _)
\* the candidates at the in-range indices, read off the response from left
\* to right
InRangePicks(candidates, indices) ==
  IF indices = <<>>
    THEN <<>>
    ELSE IF InRange(Head(indices), candidates)
      THEN <<candidates[Head(indices) + 1]>>
             \o InRangePicks(candidates, Tail(indices))
      ELSE InRangePicks(candidates, Tail(indices))

\* the ranking call was made and answered with a list of indices
Ranked ==
  /\ fl.pc = "done"
  /\ Len(fl.args.products) > fl.args.max_results
  /\ fl.rank.kind = "indices"

RankingOfNoUse ==
  /\ fl.pc = "done"
  /\ Len(fl.args.products) > fl.args.max_results
  /\ \/ fl.rank.kind \in {"call_error", "unparsable"}
     \/ /\ fl.rank.kind = "indices"
        /\ \A i \in 1..Len(fl.rank.indices) :
             ~InRange(fl.rank.indices[i], fl.args.products)

\* C20: with more candidates than the desired count, when the ranking call
\* raises (a failure or a timeout), answers without a parsable list or
\* names no in-range index, the filter raises nothing and returns the first
\* desired_count candidates in input order.
C20_FilterFallback ==
  RankingOfNoUse =>
    /\ ~fl.result.raised
    /\ Len(fl.result.value) = fl.args.max_results
    /\ \A i \in 1..fl.args.max_results :
         fl.result.value[i] = fl.args.products[i]

\* C20 witness: four candidates, a desired count of 3 and an answer of the
\* ranking service without a parsable list.
C20_Witness ==
  /\ RankingOfNoUse /\ fl.rank.kind = "unparsable"
  /\ Len(fl.args.products) = 4 /\ fl.args.max_results = 3
  /\ Len(fl.result.value) = 3

\* search_products has returned a list to the workflow
SearchReturned(r) ==
  /\ pc[r] \notin {"idle", "start", "search", "blocked_search"}
  /\ error[r] \notin {"intent", "search"}

\* the placeholder generation was entered
GenerationEntered(r) ==
  \/ pc[r] \in {"generate", "generated", "blocked_generate"}
  \/ \E i \in 1..Len(calls[r]) : calls[r][i] = "generate"
  \/ error[r] = "generate"
  \/ Len(items[r]) > 0

\* the relevance filter or the catalog-item assembly was entered
CatalogBranchEntered(r) ==
  \/ pc[r] \in {"filter", "blocked_filter", "assemble"}
  \/ \E i \in 1..Len(calls[r]) : calls[r][i] = "rank"
  \/ filtered[r] # NotFiltered
  \/ Len(relevant_products[r]) > 0
  \/ error[r] = "filter"

\* C21: the placeholder generation is entered if and only if the search
\* returned an empty list: with a non-empty result the generation call is
\* never made, with an empty one neither the relevance filter nor the
\* catalog-item assembly runs, and the empty list alone fails nothing: the
\* only failures after it are those of the generation, of an emission or of
\* the completion.
C21_PlaceholderIffEmpty ==
  \A r \in Reqs :
    /\ GenerationEntered(r) => SearchReturned(r) /\ Len(products[r]) = 0
    /\ CatalogBranchEntered(r) => SearchReturned(r) /\ Len(products[r]) > 0
    /\ SearchReturned(r) =>
         IF Len(products[r]) = 0
           THEN /\ GenerationEntered(r)
                /\ ~CatalogBranchEntered(r)
                /\ pc[r] = "generate" => error[r] = "none"
           ELSE /\ CatalogBranchEntered(r)
                /\ ~GenerationEntered(r)

\* C21 witness: the search returned nothing, one placeholder item was
\* generated, and the request completed with its offer.
C21_Witness ==
  \E r \in Reqs :
    /\ Len(products[r]) = 0 /\ calls[r] = <<"generate">>
    /\ Len(items[r]) = 1 /\ Len(Pairs(r)) = 1
    /\ pc[r] = "returned" /\ HasCompleted(r)

\* the catalog request of a direct call was answered with a list of records
CatalogAnswered ==
  /\ sp.pc = "done" /\ ~sp.args.demo_mode
  /\ sp.cls.kind # "client_error"
  /\ sp.http.kind = "ok"

SampleSkusFor(term) ==
  IF term = TermCoffeeMaker THEN <<6446101, 6120833, 6372886>>
  ELSE IF term = TermTvLaptop THEN <<6534616, 6515649, 6542175>>
  ELSE <<6446101, 6120833, 6372886, 6534616, 6515649, 6542175,
         6505727, 6447909, 6428457, 6536735, 6522019, 6501901>>

\* C23: without an API key search_products makes no classification call and
\* no catalog request, and returns the first count items of the first
\* sample category (coffee, laptop, headphones, tv) whose key occurs in the
\* lower-cased term, or of the concatenated pool when none does: "Coffee
\* maker" gives the coffee makers, "TV laptop" the laptops, "usb" the pool.
C23_DemoMode ==
  (sp.pc = "done" /\ sp.args.demo_mode) =>
    LET expected == SampleSkusFor(sp.args.query)
        ps == sp.result.products
    IN  /\ ~sp.result.raised
        /\ sp.result.calls = <<>>
        /\ ~sp.result.request.sent
        /\ Len(ps) = Min(sp.args.max_results, Len(expected))
        /\ \A i \in 1..Len(ps) : ps[i].sku = expected[i] /\ ps[i].salePrice >= 0

\* C23 witness: the term "Coffee maker" with a count of 3 gives the three
\* coffee-maker samples.
C23_Witness ==
  /\ sp.pc = "done" /\ sp.args.demo_mode
  /\ sp.args.query = TermCoffeeMaker /\ sp.args.max_results = 3
  /\ Len(sp.result.products) = 3
  /\ sp.result.products[3].sku = 6372886

\* a direct call sent its catalog request
RequestSent == sp.pc = "done" /\ sp.result.request.sent

\* C24: the minimum price of the catalog request is 50 when the caller
\* gives no min_price and the caller's min_price otherwise, 0 and values
\* below 50 included; a maximum price is sent if and only if the caller
\* gives one, and it is the caller's.
C24_MinPriceFloor ==
  RequestSent =>
    /\ sp.args.min_price = <<>> => sp.result.request.min_price = 50
    /\ sp.args.min_price # <<>> =>
         sp.result.request.min_price = sp.args.min_price[1]
    /\ sp.result.request.max_price = sp.args.max_price

\* C24 witness: a caller's min_price of 0 is sent as 0, with no maximum.
C24_Witness ==
  /\ RequestSent
  /\ sp.args.min_price = <<0>> /\ sp.args.max_price = <<>>
  /\ sp.result.request.min_price = 0
  /\ sp.result.request.max_price = <<>>

\* C25: the page size of the catalog request is the larger of fetch_extra
\* and 3 * max_results: at least each of them and equal to one of them.
C25_PageSize ==
  RequestSent =>
    /\ sp.result.request.pageSize >= 3 * sp.args.max_results
    /\ sp.result.request.pageSize >= sp.args.fetch_extra
    /\ sp.result.request.pageSize
         \in {3 * sp.args.max_results, sp.args.fetch_extra}

\* C25 witness: with fetch_extra = 2 and max_results = 3 the page size is 9.
C25_Witness ==
  /\ RequestSent
  /\ sp.args.fetch_extra = 2 /\ sp.args.max_results = 3
  /\ sp.result.request.pageSize = 9

\* C26: every assembled Offer requires the buyer's confirmation and requests
\* the collection of a shipping address, whatever the confirmation flag of
\* the request's Intent and whatever the item, and it has exactly one line
\* item; for the offers in the sink and for those in the mandate store.
C26_ConfirmationAndShipping ==
  /\ \A r \in Reqs :
       \A k \in 1..Len(Pairs(r)) :
         /\ OfferOf(Pairs(r)[k]).user_cart_confirmation_required = TRUE
         /\ OfferOf(Pairs(r)[k]).payment_request.options.request_shipping = TRUE
         /\ Len(OfferOf(Pairs(r)[k]).payment_request.details.display_items) = 1
  /\ \A id \in DOMAIN cart_mandate_store :
       LET offer == cart_mandate_store[id].contents
       IN  /\ offer.user_cart_confirmation_required = TRUE
           /\ offer.payment_request.options.request_shipping = TRUE
           /\ Len(offer.payment_request.details.display_items) = 1

\* C26 witness: an offer went out for a request whose Intent asks for no
\* confirmation.
C26_Witness ==
  \E r \in Reqs :
    /\ ~data_parts[r].user_cart_confirmation_required
    /\ Len(Pairs(r)) >= 1
    /\ OfferOf(Pairs(r)[1]).user_cart_confirmation_required = TRUE

\* the ids of the offers of a list of mandates
IdsOf(cart_mandates) ==
  {cart_mandates[i].contents.id : i \in 1..Len(cart_mandates)}

\* the chosen offer, when there is one, is in the session's list of offers
ChosenIsCurrent ==
  tool_context.chosen_cart_id # <<>>
    => tool_context.chosen_cart_id[1] \in IdsOf(tool_context.cart_mandates)

\* a call of update_chosen_cart_mandate with an id of no offer of the list
\* it was called with returned "not found" and left the session as it was
NotFoundLeavesState ==
  (uc.pc = "done" /\ uc.cart_id \notin IdsOf(uc.seen.cart_mandates))
    => uc.result = "not found" /\ uc.left = uc.seen

\* C27: after any sequence of find_products and update_chosen_cart_mandate
\* calls of one shopper session, chosen_cart_id, when set, is the id of an
\* offer of the session's current cart_mandates; and a call of
\* update_chosen_cart_mandate with an id of no current offer reports
\* "not found" and leaves the whole session state unchanged.
C27_ChosenCartIsCurrent == ChosenIsCurrent /\ NotFoundLeavesState

\* the third of three offers was chosen and a later find_products replaced
\* the list by one offer, so that the chosen id is the id of none
StaleChoice ==
  /\ fp_pc = "returned"
  /\ uc.pc = "done" /\ uc.result = "selected"
  /\ tool_context.chosen_cart_id = <<uc.cart_id>>
  /\ uc.cart_id = <<"cart", 3>> /\ Len(uc.seen.cart_mandates) = 3
  /\ Len(tool_context.cart_mandates) = 1
  /\ uc.cart_id \notin IdsOf(tool_context.cart_mandates)

\* a call with an id of no current offer was answered
NotFoundAnswered ==
  /\ uc.pc = "done" /\ uc.result = "not found"
  /\ Len(tool_context.cart_mandates) > 0

\* what find_products keeps of a task
SessionResults ==
  <<tool_context.shopping_context_id, tool_context.cart_mandates,
    tool_context.product_metadata>>

\* the three values of the task of request r: its context, the mandates of
\* its pairs in order, and the metadata of its pairs under the offers' ids
ResultsOfTask(r, results) ==
  /\ results[1] = <<r>>
  /\ Len(results[2]) = Len(Pairs(r))
  /\ \A k \in 1..Len(Pairs(r)) :
       results[2][k] = Pairs(r)[k].data.cart_mandate
  /\ DOMAIN results[3] = {OfferOf(Pairs(r)[k]).id : k \in 1..Len(Pairs(r))}
  /\ \A k \in 1..Len(Pairs(r)) :
       (\A j \in (k + 1)..Len(Pairs(r)) :
          OfferOf(Pairs(r)[j]).id # OfferOf(Pairs(r)[k]).id)
         => results[3][OfferOf(Pairs(r)[k]).id]
              = Pairs(r)[k].data.cart_mandate_metadata

\* find_products ends on a task that is not completed
EndsOnFailedTask ==
  /\ fp_pc = "waiting" /\ fp_pc' # "waiting"
  /\ ~HasCompleted(fp_task)

FailedTaskStep ==
  EndsOnFailedTask => fp_pc' = "raised_task" /\ SessionResults' = SessionResults

WriteStep ==
  SessionResults' # SessionResults
    => /\ fp_pc = "waiting" /\ fp_pc' = "returned"
       /\ HasCompleted(fp_task)
       /\ ResultsOfTask(fp_task, SessionResults')

\* C28: when the merchant's task does not end completed, find_products
\* raises and leaves cart_mandates, product_metadata and
\* shopping_context_id as they were; the three change only in the step that
\* returns from a completed task, all to the values of that one task.
C28_WritesOnlyAfterCompleted == [][FailedTaskStep /\ WriteStep]_vars

\* C28 witness: a second find_products raised on a failed task that carried
\* offers, and the session still holds the three values of the first task.
C28_Witness ==
  /\ fp_pc = "raised_task" /\ fp_task = 2
  /\ HasFailed(2) /\ Len(Pairs(2)) >= 1
  /\ HasCompleted(1) /\ Len(Pairs(1)) = 3
  /\ ResultsOfTask(1, SessionResults)

====
